---- MODULE Spec2Model ----
(***************************************************************************)
(* Event-driven query pipeline: the EventBus (event_bus.py), the stage     *)
(* dispatcher PipelineStage._handle_event (pipeline/base_stage.py), the    *)
(* four concrete stages and the QueryExecutor (query_executor.py).         *)
(*                                                                         *)
(* Everything on the bus is a synchronous Python call, so the model keeps  *)
(* the call stack of the one event-loop thread explicitly: a "publish"     *)
(* frame is an activation of EventBus.publish, a "stage" frame one of      *)
(* PipelineStage._handle_event.  `exc` is the exception that is unwinding  *)
(* the stack, if any.  Coroutines (execute_query calls) interleave only at *)
(* their single await, asyncio.wait_for.                                   *)
(***************************************************************************)
EXTENDS Integers, Sequences, FiniteSets, TLC

\* ---------------------------------------------------------------- bounds
MaxCalls == 2          \* execute_query calls in one run
MaxTime == 31          \* the clock stops here
MaxSubs == 3           \* subscribe calls of a direct client of the bus
MaxPublishes == 1      \* publish calls of a direct client of the bus
MaxBurst == 150        \* publish calls of a client that fills the history
MaxRewires == 1        \* times the harness registers the executor again
MaxEvents == 3         \* publish calls of a client that reads the history
MaxExecutors == 2      \* executors constructed on the one bus

\* ------------------------------------------------------ program constants
MaxHistory == 100      \* EventBus._max_history
TimeoutSecs == 30      \* asyncio.wait_for(..., timeout=30.0)
NumExecutors == 1      \* main.py constructs one QueryExecutor

VARIABLES
    subscribers,    \* EventBus._subscribers: topic -> list of handlers
    history,        \* EventBus._event_history
    stack,          \* call stack of the event-loop thread
    exc,            \* the exception being propagated, NoExc if none
    futures,        \* the asyncio futures created by execute_query
    result_future,  \* QueryExecutor.result_future, per executor (0 = None)
    callers,        \* the execute_query coroutines
    running,        \* the coroutine that owns the thread (0 = none)
    client,         \* a direct caller of the bus (not an execute_query)
    now,            \* the clock
    trace           \* what the bus and the stages did, in order

vars == <<subscribers, history, stack, exc, futures, result_future, callers, running, client, now, trace>>

\* ------------------------------------------------------------- vocabulary
StageNames == <<"ParseStage", "DataLoadStage", "AnalysisStage", "FormatStage">>

StageSet == {StageNames[i] : i \in 1..Len(StageNames)}

ChainTopics == <<"query.received", "query.parsed", "data.loaded", "analysis.complete", "response.ready">>

\* Topics and handlers of a direct client of the bus (a test of the bus).
ClientTopics == {"alpha", "beta"}

ClientHandlers == {"H1", "H2"}

Topics == {ChainTopics[i] : i \in 1..Len(ChainTopics)} \cup {"pipeline.error"} \cup ClientTopics

Executors == 1..NumExecutors

CallIds == 1..MaxCalls

NoExc == [kind |-> "none", msg |-> ""]

Exc(kind, msg) == [kind |-> kind, msg |-> msg]

NoValue == [none |-> TRUE]

\* A bound method: the object (executor) it belongs to and the function.
Handler(ex, fn) == [ex |-> ex, fn |-> fn]

Event(topic, data, metadata, ts) ==
    [topic |-> topic, data |-> data, metadata |-> metadata, timestamp |-> ts]

\* Mutant: the data and analysis stages listen to each other's topic.
InputTopicSwapped(s) ==
    CASE s = "ParseStage" -> "query.received"
      [] s = "DataLoadStage" -> "data.loaded"
      [] s = "AnalysisStage" -> "query.parsed"
      [] s = "FormatStage" -> "analysis.complete"

InputTopic(s) ==
    CASE s = "ParseStage" -> "query.received"
      [] s = "DataLoadStage" -> "query.parsed"
      [] s = "AnalysisStage" -> "data.loaded"
      [] s = "FormatStage" -> "analysis.complete"

\* Mutant: the format stage publishes on the chain's first topic.
OutputTopicCycle(s) ==
    CASE s = "ParseStage" -> "query.parsed"
      [] s = "DataLoadStage" -> "data.loaded"
      [] s = "AnalysisStage" -> "analysis.complete"
      [] s = "FormatStage" -> "query.received"

OutputTopic(s) ==
    CASE s = "ParseStage" -> "query.parsed"
      [] s = "DataLoadStage" -> "data.loaded"
      [] s = "AnalysisStage" -> "analysis.complete"
      [] s = "FormatStage" -> "response.ready"

\* ------------------------------------------------------------ the stages
KnownIntents ==
    {"compare_rainfall_and_crops", "district_extremes",
     "production_trend_with_climate", "policy_arguments"}

\* The questions of the model: one the parser recognises, one it does not.
Questions == {"rainfall top crops in A and B", "hello"}

\* Mutant: a question no rule matches gets the first intent.
ParseQuestionDefaultIntent(q) ==
    [intent |-> "compare_rainfall_and_crops",
     params |-> [state_a |-> "A", state_b |-> "B", years |-> "5",
                 top_m |-> "3", crop_filter |-> "None"]]

\* parse_question: the intent and the params dictionary built for it, with
\* the keys the source gives it; a question no rule matches is 'unknown'.
ParseQuestion(q) ==
    CASE q = "rainfall top crops in A and B" ->
           [intent |-> "compare_rainfall_and_crops",
            params |-> [state_a |-> "A", state_b |-> "B", years |-> "5",
                        top_m |-> "3", crop_filter |-> "None"]]
      [] q = "district with highest wheat in A and B" ->
           [intent |-> "district_extremes",
            params |-> [state_a |-> "A", state_b |-> "B", crop |-> "wheat", year |-> "None"]]
      [] q = "show wheat trend in region A" ->
           [intent |-> "production_trend_with_climate",
            params |-> [region |-> "A", crop |-> "Wheat", years |-> "5"]]
      [] q = "policy to promote millet over rice in region A" ->
           [intent |-> "policy_arguments",
            params |-> [region |-> "A", crop_a |-> "millet", crop_b |-> "rice", years |-> "5"]]
      [] OTHER -> [intent |-> "unknown", params |-> [raw |-> q]]

\* One question for each intent, and one no rule matches.
AllQuestions ==
    {"rainfall top crops in A and B", "district with highest wheat in A and B",
     "show wheat trend in region A", "policy to promote millet over rice in region A", "hello"}

\* The keys the analysis of an intent reads with params[key], in the order
\* it reads them.
AnalysisReads(intent) ==
    CASE intent = "compare_rainfall_and_crops" -> <<"state_a", "state_b">>
      [] intent = "district_extremes" -> <<"state_a", "state_b", "crop">>
      [] intent = "production_trend_with_climate" -> <<"state", "crop">>
      [] intent = "policy_arguments" -> <<"state", "crop_a", "crop_b">>
      [] OTHER -> <<>>

\* str(KeyError(key)): the key in quotes.
KeyErrorText(k) ==
    CASE k = "state" -> "'state'"
      [] k = "state_a" -> "'state_a'"
      [] k = "state_b" -> "'state_b'"
      [] k = "crop" -> "'crop'"
      [] k = "crop_a" -> "'crop_a'"
      [] k = "crop_b" -> "'crop_b'"

\* The keys among them that params does not have, in reading order.
MissingKeys(intent, params) ==
    SelectSeq(AnalysisReads(intent), LAMBDA k : k \notin DOMAIN params)

\* Mutant: the dictionary is built from the new entries alone.
MergeNewOnly(a, b) == b

\* {**a, key: value}: the right-hand entries win.
Merge(a, b) == [k \in DOMAIN a \cup DOMAIN b |-> IF k \in DOMAIN b THEN b[k] ELSE a[k]]

\* What process returns when it returns.
ProcessResult(s, data) ==
    CASE s = "ParseStage" ->
           [question |-> data.question,
            intent |-> ParseQuestion(data.question).intent,
            params |-> ParseQuestion(data.question).params]
      [] s = "DataLoadStage" ->
           Merge(data, [datasets |-> [agriculture |-> "agriculture_df", rainfall |-> "rainfall_df"]])
      [] s = "AnalysisStage" ->
           Merge(data, [results |-> [of |-> data.intent]])
      [] s = "FormatStage" ->
           [answer |-> data.results.of, tables |-> "tables", citations |-> "citations",
            debug |-> [intent |-> data.intent, params |-> data.params]]

\* The failures process can end in.  parse_question gives a question that no
\* rule matches the intent 'unknown' and raises nothing (line 431).  The
\* parser and the data manager are collaborators handed to the stage, the
\* analyses and formatters work on data frames: each may fail.  An intent outside the four known ones makes
\* the analysis and format stages raise ValueError themselves.
ProcessFailures(s, data) ==
    CASE s = "ParseStage" ->
           IF ParseQuestion(data.question).intent \in KnownIntents
           THEN {Exc("ValueError", "cannot parse")}
           ELSE {}
      [] s = "DataLoadStage" -> {Exc("RuntimeError", "dataset unavailable")}
      [] s = "AnalysisStage" ->
           IF data.intent \notin KnownIntents
           THEN {Exc("ValueError", "Unknown intent: unknown")}
           ELSE IF MissingKeys(data.intent, data.params) # <<>>
                THEN {Exc("KeyError", KeyErrorText(MissingKeys(data.intent, data.params)[1]))}
                ELSE {Exc("KeyError", "'state'")}
      [] s = "FormatStage" ->
           IF data.intent \in KnownIntents
           THEN {Exc("ValueError", "Index contains duplicate entries, cannot reshape")}
           ELSE {Exc("ValueError", "Unknown intent: unknown")}

\* Whether process can return at all for this payload.
ProcessCanReturn(s, data) ==
    /\ s \in {"AnalysisStage", "FormatStage"} => data.intent \in KnownIntents
    /\ s = "AnalysisStage" => MissingKeys(data.intent, data.params) = <<>>

\* The stages whose collaborator can block forever.
BlockingStages == {"ParseStage", "DataLoadStage"}

\* --------------------------------------------------------------- the bus
EmptyRegistry == [t \in Topics |-> <<>>]

\* Mutant: a handler already in the topic's list is not added again.
SubscribeOnce(subs, topic, handler) ==
    IF \E i \in 1..Len(subs[topic]) : subs[topic][i] = handler
    THEN subs
    ELSE [subs EXCEPT ![topic] = Append(@, handler)]

\* Mutant: the new handler goes to the front of the topic's list.
SubscribeFront(subs, topic, handler) == [subs EXCEPT ![topic] = <<handler>> \o @]

Subscribe(subs, topic, handler) == [subs EXCEPT ![topic] = Append(@, handler)]

\* Mutant: the event is put in front of the history.
AppendHistoryFront(h, e) ==
    LET h1 == <<e>> \o h
    IN IF Len(h1) > MaxHistory THEN Tail(h1) ELSE h1

\* Mutant: the oldest entry is dropped already at capacity.
AppendHistoryOffByOne(h, e) ==
    LET h1 == Append(h, e)
    IN IF Len(h1) >= MaxHistory THEN Tail(h1) ELSE h1

AppendHistory(h, e) ==
    LET h1 == Append(h, e)
    IN IF Len(h1) > MaxHistory THEN Tail(h1) ELSE h1

\* QueryExecutor.__init__ for executor ex on registry subs: four stages
\* register themselves, then the two handlers of the executor.
\* Mutant: the stage registers its dispatcher twice.
RegisterStageTwice(subs, ex, s) ==
    Subscribe(Subscribe(subs, InputTopic(s), Handler(ex, s)), InputTopic(s), Handler(ex, s))

\* PipelineStage.__init__ of stage s: _register subscribes _handle_event to
\* the stage's input topic.
RegisterStage(subs, ex, s) == Subscribe(subs, InputTopic(s), Handler(ex, s))

RECURSIVE RegisterStages(_, _, _)
RegisterStages(subs, ex, i) ==
    IF i > Len(StageNames) THEN subs
    ELSE RegisterStages(RegisterStage(subs, ex, StageNames[i]), ex, i + 1)

ConstructExecutor(subs, ex) ==
    Subscribe(Subscribe(RegisterStages(subs, ex, 1),
                        "response.ready", Handler(ex, "_handle_result")),
              "pipeline.error", Handler(ex, "_handle_error"))

\* Mutant: the stages and handlers are registered for the first executor
\* only, whatever the number of executors constructed.
ConstructExecutorsOnce(subs, n) ==
    IF n = 0 THEN subs ELSE ConstructExecutor(subs, 1)

RECURSIVE ConstructExecutors(_, _)
ConstructExecutors(subs, n) ==
    IF n = 0 THEN subs ELSE ConstructExecutor(ConstructExecutors(subs, n - 1), n)

\* ---------------------------------------------------------------- frames
\* An activation of publish: the event, the list object the loop iterates
\* (hs), the handlers it has called so far, and whether hs is still the
\* registry's list for the topic (live).
PublishFrame(e, hs) ==
    [kind |-> "publish", event |-> e, hs |-> hs, invoked |-> <<>>, live |-> TRUE]

\* An activation of _handle_event: pc is "process" before process ends,
\* "publishing" from the publish on the output topic on, "errpublishing"
\* in the except block (err is the failure caught), "hung" when process
\* blocks.
StageFrame(h, e) ==
    [kind |-> "stage", handler |-> h, event |-> e, pc |-> "process", err |-> NoExc]

Top == stack[Len(stack)]

Pop(stk) == SubSeq(stk, 1, Len(stk) - 1)

ReplaceTop(stk, f) == [stk EXCEPT ![Len(stk)] = f]

TopIs(kind) == stack # <<>> /\ Top.kind = kind

\* Mutant: the loop goes on after a handler raised.
DispatchingThroughErrors == TopIs("publish") /\ Len(Top.invoked) < Len(Top.hs)

\* The dispatch loop of the top publish frame has a handler left to visit
\* and no handler has raised.
Dispatching == TopIs("publish") /\ exc = NoExc /\ Len(Top.invoked) < Len(Top.hs)

\* The handler the loop visits next.
NextHandler == Top.hs[Len(Top.invoked) + 1]

Visit(f, h) == [f EXCEPT !.invoked = Append(@, h)]

Hung == TopIs("stage") /\ Top.pc = "hung"

\* Mutant: an event on a topic without subscribers goes to the handlers of
\* the client's other topics.
HandlersForBroadcast(subs, topic) ==
    IF subs[topic] # <<>> THEN subs[topic] ELSE subs["alpha"] \o subs["beta"]

\* `if topic in self._subscribers: for handler in self._subscribers[topic]`
\* with the else branch that only logs: a topic without a list has no
\* handler to call.
HandlersFor(subs, topic) ==
    IF subs[topic] # <<>> THEN subs[topic] ELSE <<>>

\* EventBus.publish up to the dispatch loop, called by coroutine `call` with
\* the stack stk and the trace tr: build the event, append it to the history
\* (dropping the oldest entry over capacity), start the loop over the topic's
\* list.
DoPublishOn(h, stk, tr, call, publisher, topic, data, metadata) ==
    LET e == Event(topic, data, metadata, now)
    IN /\ history' = AppendHistory(h, e)
       /\ stack' = Append(stk, PublishFrame(e, HandlersFor(subscribers, topic)))
       /\ trace' = Append(tr, [op |-> "publish", topic |-> topic, handler |-> publisher,
                               call |-> call, err |-> NoExc])

DoPublish(stk, tr, call, publisher, topic, data, metadata) ==
    DoPublishOn(history, stk, tr, call, publisher, topic, data, metadata)

\* Trace entries: handler fn was called with an event on topic; the process
\* of stage fn raised e.
Invoked(tr, call, topic, fn) ==
    Append(tr, [op |-> "invoke", topic |-> topic, handler |-> fn, call |-> call, err |-> NoExc])

Raised(tr, call, topic, fn, e) ==
    Append(tr, [op |-> "raise", topic |-> topic, handler |-> fn, call |-> call, err |-> e])

\* ------------------------------------------------------------- futures
NoFuture == [state |-> "none", value |-> NoValue]

Pending == [state |-> "pending", value |-> NoValue]

\* Mutant: a future that has a result does not count as done.
DoneNotResult(f) == f.state \in {"exception", "cancelled"}

Done(f) == f.state \in {"result", "exception", "cancelled"}

\* Mutant: the guard does not ask whether the future is done.
ArmedIgnoringDone(ex) == result_future[ex] # 0

\* `if self.result_future and not self.result_future.done()`
Armed(ex) == result_future[ex] # 0 /\ ~Done(futures[result_future[ex]])

\* Mutant: the executor keeps its futures in a queue and a handler resolves
\* the first that is pending.
TargetFirstPending(ex) ==
    LET pending == {c \in CallIds : futures[c].state = "pending"}
    IN IF pending = {} THEN result_future[ex]
       ELSE CHOOSE c \in pending : \A d \in pending : c <= d

\* Mutant: a handler resolves the future of the request that has waited
\* longest, if one waits.
TargetOldestWaiting(ex) ==
    LET waiting == {c \in CallIds : callers[c].pc = "waiting" /\ futures[c].state = "pending"}
    IN IF waiting = {} THEN result_future[ex]
       ELSE CHOOSE c \in waiting : \A d \in waiting : c <= d

\* The future a handler of executor ex resolves: self.result_future.
Target(ex) == result_future[ex]

\* Mutant: the slot is filled only while it is empty.
ArmSlotIfEmpty(rf, ex, c) == IF rf[ex] = 0 THEN [rf EXCEPT ![ex] = c] ELSE rf

\* Mutant: a pending future is left in the slot.
ArmSlotKeepPending(rf, ex, c) ==
    IF rf[ex] # 0 /\ futures[rf[ex]].state = "pending" THEN rf ELSE [rf EXCEPT ![ex] = c]

\* self.result_future = loop.create_future(): the slot of executor ex takes
\* the new future c, whatever it held.
ArmSlot(rf, ex, c) == [rf EXCEPT ![ex] = c]

\* An /ask request: the execute_query coroutine it awaits (pc, ex, question,
\* fut, started, deadline, ended, outcome) and the status of the HTTP
\* response ask gives for the outcome (0 while the request is open).
IdleCaller == [pc |-> "idle", ex |-> 0, question |-> "", fut |-> 0, started |-> 0,
               deadline |-> 0, ended |-> 0, outcome |-> NoValue, response |-> 0]

\* Mutant: the future gets the event instead of its payload.
HandleResultOnEvent(f, data) ==
    [state |-> "result", value |-> [data |-> data]]

\* future.set_result(event.data) behind the guard of _handle_result.
HandleResultOn(f, data) ==
    [state |-> "result", value |-> data]

\* Mutant: the payload's message is read under a key it does not have.
ErrorMessageDefault(data) == "Unknown error"

\* event.data.get("error", "Unknown error")
ErrorMessage(data) ==
    IF "error" \in DOMAIN data THEN data.error ELSE "Unknown error"

\* Mutant: the error handler finishes the future with a result.
HandleErrorAsResult(f, data) ==
    [state |-> "result", value |-> data]

\* future.set_exception(Exception(error_msg)) behind the guard of _handle_error.
HandleErrorOn(f, data) ==
    [state |-> "exception", value |-> Exc("Exception", ErrorMessage(data))]

\* What awaiting a finished future gives the caller.
OutcomeOf(f) ==
    IF f.state = "result" THEN [kind |-> "result", value |-> f.value]
    ELSE [kind |-> "raised", value |-> f.value]

TimeoutOutcome == [kind |-> "timeout", value |-> NoValue]

\* isinstance(e, ValueError) for the exception classes of the model.
IsValueError(e) == e.kind = "ValueError"

\* Mutant: the handler for every Exception comes before the ValueError one.
AskExceptionFirst(outcome) ==
    CASE outcome.kind = "result" -> 200
      [] outcome.kind = "timeout" -> 504
      [] OTHER -> 500

\* ask: the status of the response for an outcome of execute_query.  The
\* except clauses are tried in order: asyncio.TimeoutError, ValueError,
\* Exception.
Ask(outcome) ==
    CASE outcome.kind = "result" -> 200
      [] outcome.kind = "timeout" -> 504
      [] outcome.kind = "raised" /\ IsValueError(outcome.value) -> 400
      [] OTHER -> 500

\* The coroutine of request c ends with outcome o at the present time.
Finish(cl, o) == [cl EXCEPT !.pc = "done", !.outcome = o, !.ended = now, !.response = Ask(o)]

\* A direct client of the bus: where it is, the failure its last publish
\* ended in, how many publish calls it has made, and (for the client that
\* fills the history) the topics it publishes on in turn.
\* got is the list its last get_event_history call returned and arg the
\* argument of that call.
IdleClient == [pc |-> "idle", err |-> NoExc, published |-> 0, plan |-> <<>>,
               got |-> [events |-> <<>>, live |-> FALSE], arg |-> <<>>]

\* =========================================================================
Init ==
    /\ subscribers = ConstructExecutors(EmptyRegistry, NumExecutors)
    /\ history = <<>>
    /\ stack = <<>>
    /\ exc = NoExc
    /\ futures = [c \in CallIds |-> NoFuture]
    /\ result_future = [ex \in Executors |-> 0]
    /\ callers = [c \in CallIds |-> IdleCaller]
    /\ running = 0
    /\ client = IdleClient
    /\ now = 0
    /\ trace = <<>>

\* Mutant: every request constructs the stages and subscribes the handlers
\* anew.
RegistryAfterCallRewired(subs, ex) == ConstructExecutor(subs, ex)

\* The registry once execute_query has armed its future: the stages and the
\* handlers were subscribed in __init__, execute_query subscribes nothing.
RegistryAfterCall(subs, ex) == subs

\* execute_query up to and including the call of publish: arm a new future
\* in the executor's one slot and publish 'query.received'.
ExecuteQuery(c, ex, q) ==
    /\ running = 0 /\ stack = <<>>
    /\ callers[c].pc = "idle"
    /\ \A d \in CallIds : d < c => callers[d].pc # "idle"
    /\ futures' = [futures EXCEPT ![c] = Pending]
    /\ result_future' = ArmSlot(result_future, ex, c)
    /\ callers' = [callers EXCEPT ![c] = [@ EXCEPT !.pc = "publishing", !.ex = ex,
                                              !.question = q, !.fut = c, !.started = now]]
    /\ running' = c
    /\ subscribers' = RegistryAfterCall(subscribers, ex)
    /\ DoPublish(<<>>, trace, c, "execute_query", "query.received", [question |-> q], [source |-> "api"])
    /\ UNCHANGED <<exc, client, now>>

\* The dispatch loop reaches a stage's _handle_event: the handler is called.
InvokeStage ==
    /\ Dispatching
    /\ NextHandler.fn \in StageSet
    /\ stack' = Append(ReplaceTop(stack, Visit(Top, NextHandler)), StageFrame(NextHandler, Top.event))
    /\ trace' = Invoked(trace, running, Top.event.topic, NextHandler.fn)
    /\ UNCHANGED <<subscribers, history, exc, futures, result_future, callers, running, client, now>>

\* The dispatch loop reaches QueryExecutor._handle_result, which returns.
HandleResult ==
    /\ Dispatching
    /\ NextHandler.fn = "_handle_result"
    /\ futures' = IF Armed(NextHandler.ex)
                  THEN [futures EXCEPT ![Target(NextHandler.ex)] = HandleResultOn(@, Top.event.data)]
                  ELSE futures
    /\ stack' = ReplaceTop(stack, Visit(Top, NextHandler))
    /\ trace' = Invoked(trace, running, Top.event.topic, NextHandler.fn)
    /\ UNCHANGED <<subscribers, history, exc, result_future, callers, running, client, now>>

\* The dispatch loop reaches QueryExecutor._handle_error, which returns.
HandleError ==
    /\ Dispatching
    /\ NextHandler.fn = "_handle_error"
    /\ futures' = IF Armed(NextHandler.ex)
                  THEN [futures EXCEPT ![Target(NextHandler.ex)] = HandleErrorOn(@, Top.event.data)]
                  ELSE futures
    /\ stack' = ReplaceTop(stack, Visit(Top, NextHandler))
    /\ trace' = Invoked(trace, running, Top.event.topic, NextHandler.fn)
    /\ UNCHANGED <<subscribers, history, exc, result_future, callers, running, client, now>>

\* Mutant: 'processed_by' is written into the incoming event's metadata.
AfterForwardInPlace(s, e) == [e EXCEPT !.metadata = Merge(@, [processed_by |-> s])]

\* The incoming event object once the stage has built the metadata of the
\* event it forwards: {**event.metadata, ...} is a new dictionary, the
\* incoming event is as it was.
AfterForward(s, e) == e

\* The history when the event object e has become e2: the history holds the
\* object, not a copy of it.
Held(h, e, e2) == [i \in 1..Len(h) |-> IF h[i] = e THEN e2 ELSE h[i]]

\* Mutant: the incoming metadata is not copied.
ForwardMetadataFresh(s, metadata) == [processed_by |-> s]

\* The metadata a stage forwards: {**event.metadata, "processed_by": name}.
ForwardMetadata(s, metadata) == Merge(metadata, [processed_by |-> s])

\* Mutant: the failing stage stamps the error event like a forwarded one.
ErrorMetadataStamped(s, metadata) == Merge(metadata, [processed_by |-> s])

\* The metadata of the error event: `metadata=event.metadata`.
ErrorMetadata(s, metadata) == metadata

\* Mutant: the error event carries the failure's class, not its message.
ErrorPayloadKind(s, e) == [error |-> e.kind, stage |-> s]

\* Mutant: the error event names the base class, not the stage.
ErrorPayloadBaseName(s, e) == [error |-> e.msg, stage |-> "PipelineStage"]

\* The payload of the error event a stage publishes for the failure e.
ErrorPayload(s, e) == [error |-> e.msg, stage |-> s]

\* _handle_event, process returned: publish the result on the output topic.
StageProcessOk ==
    /\ TopIs("stage") /\ Top.pc = "process"
    /\ ProcessCanReturn(Top.handler.fn, Top.event.data)
    /\ LET incoming == AfterForward(Top.handler.fn, Top.event)
       IN DoPublishOn(Held(history, Top.event, incoming),
                      ReplaceTop(stack, [Top EXCEPT !.pc = "publishing", !.event = incoming]),
                      trace, running,
                      Top.handler.fn, OutputTopic(Top.handler.fn),
                      ProcessResult(Top.handler.fn, Top.event.data),
                      ForwardMetadata(Top.handler.fn, Top.event.metadata))
    /\ UNCHANGED <<subscribers, exc, futures, result_future, callers, running, client, now>>

\* _handle_event, process raised e: the except block publishes the error
\* event with the incoming metadata.
StageProcessRaise ==
    /\ TopIs("stage") /\ Top.pc = "process"
    /\ \E e \in ProcessFailures(Top.handler.fn, Top.event.data) :
         DoPublish(ReplaceTop(stack, [Top EXCEPT !.pc = "errpublishing", !.err = e]),
                   Raised(trace, running, Top.event.topic, Top.handler.fn, e), running,
                   Top.handler.fn, "pipeline.error", ErrorPayload(Top.handler.fn, e),
                   ErrorMetadata(Top.handler.fn, Top.event.metadata))
    /\ UNCHANGED <<subscribers, exc, futures, result_future, callers, running, client, now>>

\* process blocks in its collaborator and never returns.
StageProcessHang ==
    /\ TopIs("stage") /\ Top.pc = "process"
    /\ Top.handler.fn \in BlockingStages
    /\ stack' = ReplaceTop(stack, [Top EXCEPT !.pc = "hung"])
    /\ UNCHANGED <<subscribers, history, exc, futures, result_future, callers, running, client, now, trace>>

\* _handle_event after its publish on the output topic returned: return.
StageReturn ==
    /\ TopIs("stage") /\ Top.pc = "publishing" /\ exc = NoExc
    /\ stack' = Pop(stack)
    /\ UNCHANGED <<subscribers, history, exc, futures, result_future, callers, running, client, now, trace>>

\* _handle_event, the publish on the output topic raised: the same except
\* block catches the failure of the downstream handler and publishes an
\* error event naming this stage.
StageCatch ==
    /\ TopIs("stage") /\ Top.pc = "publishing" /\ exc # NoExc
    /\ exc' = NoExc
    /\ DoPublish(ReplaceTop(stack, [Top EXCEPT !.pc = "errpublishing", !.err = exc]),
                 trace, running,
                 Top.handler.fn, "pipeline.error", ErrorPayload(Top.handler.fn, exc),
                 ErrorMetadata(Top.handler.fn, Top.event.metadata))
    /\ UNCHANGED <<subscribers, futures, result_future, callers, running, client, now>>

\* Mutant: the except block ends without raise.
ReraisedSwallowed(f, e) == NoExc

\* The failure that leaves the except block: the caught one, re-raised,
\* unless the publish of the error event failed itself.
Reraised(f, e) == IF e # NoExc THEN e ELSE f.err

\* _handle_event, end of the except block: raise.
StageReraise ==
    /\ TopIs("stage") /\ Top.pc = "errpublishing"
    /\ exc' = Reraised(Top, exc)
    /\ stack' = Pop(stack)
    /\ UNCHANGED <<subscribers, history, futures, result_future, callers, running, client, now, trace>>

\* The caller of a publish that was called with an empty stack takes over:
\* an execute_query coroutine or the client of the bus.
AfterPublish(e) ==
    IF running # 0
    THEN /\ client' = client
         /\ IF e = NoExc
            THEN /\ callers' = [callers EXCEPT ![running].pc = "published"]
                 /\ running' = running
            ELSE /\ callers' = [callers EXCEPT ![running] = Finish(@, [kind |-> "raised", value |-> e])]
                 /\ running' = 0
    ELSE /\ client' = [client EXCEPT !.pc = IF e = NoExc THEN "returned" ELSE "raised", !.err = e]
         /\ UNCHANGED <<callers, running>>

\* publish: the loop visited every handler of the list; return.
PublishReturn ==
    /\ TopIs("publish") /\ exc = NoExc
    /\ Len(Top.invoked) = Len(Top.hs)
    /\ stack' = Pop(stack)
    /\ IF Len(stack) = 1 THEN AfterPublish(NoExc) ELSE UNCHANGED <<callers, running, client>>
    /\ UNCHANGED <<subscribers, history, exc, futures, result_future, now, trace>>

\* publish: a handler raised; log and re-raise, leaving the loop.
PublishRaise ==
    /\ TopIs("publish") /\ exc # NoExc
    /\ stack' = Pop(stack)
    /\ IF Len(stack) = 1
       THEN AfterPublish(exc) /\ exc' = NoExc
       ELSE UNCHANGED <<callers, running, client, exc>>
    /\ UNCHANGED <<subscribers, history, futures, result_future, now, trace>>

\* execute_query: await asyncio.wait_for(self.result_future, 30.0).  A
\* finished future gives its result or raises its exception at once;
\* otherwise the coroutine is suspended until the future finishes or the
\* deadline passes.
WaitFor(c) ==
    /\ running = c /\ stack = <<>>
    /\ callers[c].pc = "published"
    /\ callers' = [callers EXCEPT ![c] =
           IF Done(futures[callers[c].fut])
           THEN Finish(@, OutcomeOf(futures[callers[c].fut]))
           ELSE [@ EXCEPT !.pc = "waiting", !.deadline = now + TimeoutSecs]]
    /\ running' = 0
    /\ UNCHANGED <<subscribers, history, stack, exc, futures, result_future, client, now, trace>>

\* Mutant: the timer fires one time unit early.
DueEarly(c) == callers[c].pc = "waiting" /\ now + 1 >= callers[c].deadline

Due(c) == callers[c].pc = "waiting" /\ now >= callers[c].deadline

\* wait_for resumes the coroutine: with the future's outcome if it finished,
\* else at the deadline, cancelling the future and raising TimeoutError.
WaitForResume(c) ==
    /\ running = 0 /\ stack = <<>>
    /\ callers[c].pc = "waiting"
    /\ Done(futures[callers[c].fut]) \/ Due(c)
    /\ IF Done(futures[callers[c].fut])
       THEN /\ callers' = [callers EXCEPT ![c] = Finish(@, OutcomeOf(futures[callers[c].fut]))]
            /\ futures' = futures
       ELSE /\ callers' = [callers EXCEPT ![c] = Finish(@, TimeoutOutcome)]
            /\ futures' = [futures EXCEPT ![callers[c].fut].state = "cancelled"]
    /\ UNCHANGED <<subscribers, history, stack, exc, result_future, running, client, now, trace>>

\* Time passes while a coroutine waits or the thread is blocked in a stage;
\* a timer that is due fires before the loop sleeps again.
Tick ==
    /\ now < MaxTime
    /\ \/ Hung
       \/ /\ stack = <<>> /\ running = 0
          /\ \E c \in CallIds : callers[c].pc = "waiting"
          /\ \A c \in CallIds : ~Due(c)
    /\ now' = now + 1
    /\ UNCHANGED <<subscribers, history, stack, exc, futures, result_future, callers, running, client, trace>>

\* Mutant: clear_subscribers spares the executor's result and error handlers.
ClearedButTerminal(subs) ==
    [t \in DOMAIN subs |-> IF t \in {"response.ready", "pipeline.error"} THEN subs[t] ELSE <<>>]

\* self._subscribers.clear(): no topic has a handler.
Cleared(subs) == [t \in DOMAIN subs |-> <<>>]

\* EventBus.clear_subscribers, called between two coroutine steps.
ClearSubscribers ==
    /\ running = 0 /\ stack = <<>>
    /\ subscribers # EmptyRegistry
    /\ subscribers' = Cleared(subscribers)
    /\ trace' = Append(trace, [op |-> "clear", topic |-> "", handler |-> "", call |-> 0, err |-> NoExc])
    /\ UNCHANGED <<history, stack, exc, futures, result_future, callers, running, client, now>>

\* ------------------------------------------------- a client of the bus
Subscribed(tr, topic, fn) ==
    Append(tr, [op |-> "subscribe", topic |-> topic, handler |-> fn, call |-> 0, err |-> NoExc])

SubscribeCalls == {i \in 1..Len(trace) : trace[i].op = "subscribe"}

\* bus.subscribe(topic, handler) by the client.
ClientSubscribe(t, fn) ==
    /\ running = 0 /\ stack = <<>>
    /\ Cardinality(SubscribeCalls) < MaxSubs
    /\ subscribers' = Subscribe(subscribers, t, Handler(0, fn))
    /\ trace' = Subscribed(trace, t, fn)
    /\ UNCHANGED <<history, stack, exc, futures, result_future, callers, running, client, now>>

\* bus.publish(topic, data) by the client.
ClientPublish(t) ==
    /\ running = 0 /\ stack = <<>>
    /\ client.published < MaxPublishes
    /\ client' = [client EXCEPT !.pc = "calling", !.err = NoExc, !.published = @ + 1]
    /\ DoPublish(<<>>, trace, 0, "client", t, [seq |-> client.published + 1], [source |-> "client"])
    /\ UNCHANGED <<subscribers, exc, futures, result_future, callers, running, now>>

\* The dispatch loop reaches a handler of the client, which returns.
ClientHandlerReturn ==
    /\ Dispatching
    /\ NextHandler.fn \in ClientHandlers
    /\ stack' = ReplaceTop(stack, Visit(Top, NextHandler))
    /\ trace' = Invoked(trace, running, Top.event.topic, NextHandler.fn)
    /\ UNCHANGED <<subscribers, history, exc, futures, result_future, callers, running, client, now>>

\* The dispatch loop reaches a handler of the client, which raises.
ClientHandlerRaise ==
    /\ Dispatching
    /\ NextHandler.fn \in ClientHandlers
    /\ stack' = ReplaceTop(stack, Visit(Top, NextHandler))
    /\ exc' = Exc("RuntimeError", NextHandler.fn)
    /\ trace' = Raised(Invoked(trace, running, Top.event.topic, NextHandler.fn),
                       running, Top.event.topic, NextHandler.fn, Exc("RuntimeError", NextHandler.fn))
    /\ UNCHANGED <<subscribers, history, futures, result_future, callers, running, client, now>>

Dispatch ==
    \/ InvokeStage
    \/ HandleResult
    \/ HandleError
    \/ StageProcessOk
    \/ StageProcessRaise
    \/ StageProcessHang
    \/ StageReturn
    \/ StageCatch
    \/ StageReraise
    \/ PublishReturn
    \/ PublishRaise

Next ==
    \/ \E c \in CallIds, ex \in Executors, q \in Questions : ExecuteQuery(c, ex, q)
    \/ Dispatch
    \/ \E c \in CallIds : WaitFor(c)
    \/ \E c \in CallIds : WaitForResume(c)
    \/ Tick
    \/ ClearSubscribers

Spec == Init /\ [][Next]_vars

\* ---------------------------------------------------------------------
\* The bus alone with a client that subscribes its own handlers and
\* publishes on its own topics.
InitBus ==
    /\ subscribers = EmptyRegistry
    /\ history = <<>>
    /\ stack = <<>>
    /\ exc = NoExc
    /\ futures = [c \in CallIds |-> NoFuture]
    /\ result_future = [ex \in Executors |-> 0]
    /\ callers = [c \in CallIds |-> IdleCaller]
    /\ running = 0
    /\ client = IdleClient
    /\ now = 0
    /\ trace = <<>>

NextBus ==
    \/ \E t \in ClientTopics, fn \in ClientHandlers : ClientSubscribe(t, fn)
    \/ \E t \in ClientTopics : ClientPublish(t)
    \/ ClientHandlerReturn
    \/ ClientHandlerRaise
    \/ PublishReturn
    \/ PublishRaise
    \/ ClearSubscribers

SpecBus == InitBus /\ [][NextBus]_vars

\* ---------------------------------------------------------------------
\* A client that publishes MaxBurst events, on the topics of its plan in
\* turn, to handlers that return.
BurstPlans == {<<"alpha">>, <<"alpha", "beta">>, <<"beta", "alpha", "alpha">>}

BurstRegistries ==
    {EmptyRegistry,
     Subscribe(EmptyRegistry, "alpha", Handler(0, "H1")),
     Subscribe(Subscribe(EmptyRegistry, "alpha", Handler(0, "H1")), "alpha", Handler(0, "H2")),
     Subscribe(Subscribe(EmptyRegistry, "alpha", Handler(0, "H1")), "beta", Handler(0, "H2"))}

\* The topic of the n-th publish under plan.
PlanTopic(plan, n) == plan[((n - 1) % Len(plan)) + 1]

InitBurst ==
    /\ subscribers \in BurstRegistries
    /\ history = <<>>
    /\ stack = <<>>
    /\ exc = NoExc
    /\ futures = [c \in CallIds |-> NoFuture]
    /\ result_future = [ex \in Executors |-> 0]
    /\ callers = [c \in CallIds |-> IdleCaller]
    /\ running = 0
    /\ client \in {[IdleClient EXCEPT !.plan = p] : p \in BurstPlans}
    /\ now = 0
    /\ trace = <<>>

\* bus.publish by the client of the burst; the trace is not kept.
BurstPublish ==
    /\ running = 0 /\ stack = <<>>
    /\ client.published < MaxBurst
    /\ client' = [client EXCEPT !.pc = "calling", !.err = NoExc, !.published = @ + 1]
    /\ DoPublish(<<>>, <<>>, 0, "client", PlanTopic(client.plan, client.published + 1),
                 [seq |-> client.published + 1], [source |-> "client"])
    /\ UNCHANGED <<subscribers, exc, futures, result_future, callers, running, now>>

NextBurst ==
    \/ BurstPublish
    \/ ClientHandlerReturn
    \/ PublishReturn

SpecBurst == InitBurst /\ [][NextBurst]_vars

\* =========================================================================
\* Reading the trace
Entries(op, fn, topic, c) ==
    {i \in 1..Len(trace) : /\ trace[i].op = op /\ trace[i].handler = fn
                           /\ trace[i].topic = topic /\ trace[i].call = c}

\* Publishes on topic during call c, by anyone.
PublishedOn(topic, c) ==
    {i \in 1..Len(trace) : trace[i].op = "publish" /\ trace[i].topic = topic /\ trace[i].call = c}

\* The stage handlers called during call c, in order.
StagesRun(c) ==
    LET sel == SelectSeq(trace, LAMBDA t : t.op = "invoke" /\ t.call = c /\ t.handler \in StageSet)
    IN [i \in 1..Len(sel) |-> sel[i].handler]

\* The failures raised by a process during call c, in order.
ProcessRaises(c) == SelectSeq(trace, LAMBDA t : t.op = "raise" /\ t.call = c)

EventsOn(topic) == SelectSeq(history, LAMBDA e : e.topic = topic)

WiredRegistry == ConstructExecutors(EmptyRegistry, NumExecutors)

Finished(c) == callers[c].pc = "done"

\* -------------------------------------------------------------------------
\* C1: every finished execute_query call has one outcome, a result, a raised
\* failure or a timeout, that agrees with the state of the call's future; a
\* call that returned a result saw exactly one 'response.ready' event
\* published during it, and one that did not return a result saw none
\* delivered to its future.
C1_OneOutcome ==
    \A c \in CallIds :
        Finished(c) =>
            /\ callers[c].outcome.kind \in {"result", "raised", "timeout"}
            /\ callers[c].outcome.kind = "result" =>
                   /\ Cardinality(PublishedOn("response.ready", c)) = 1
                   /\ futures[c].state = "result"
            /\ callers[c].outcome.kind = "raised" =>
                   /\ PublishedOn("response.ready", c) = {}
                   /\ futures[c].state = "exception"
            /\ callers[c].outcome.kind = "timeout" =>
                   /\ PublishedOn("response.ready", c) = {}
                   /\ futures[c].state = "cancelled"

C1_Witness ==
    /\ Finished(1) /\ callers[1].outcome.kind = "result"
    /\ Finished(2) /\ callers[2].outcome.kind = "timeout"

\* -------------------------------------------------------------------------
\* C2: when the first call runs on the wired chain and no process fails, it
\* returns the payload of the 'response.ready' event of the last stage, the
\* four stages having run once each in chain order, and no time passes
\* between the call and its return.
C2_HappyPath ==
    (/\ Finished(1)
     /\ StagesRun(1) # <<>>
     /\ ProcessRaises(1) = <<>>)
    => /\ StagesRun(1) = StageNames
       /\ callers[1].outcome.kind = "result"
       /\ Len(EventsOn("response.ready")) >= 1
       /\ callers[1].outcome.value = EventsOn("response.ready")[1].data
       /\ DOMAIN callers[1].outcome.value = {"answer", "tables", "citations", "debug"}
       /\ callers[1].ended = callers[1].started

C2_Witness ==
    /\ Finished(1) /\ callers[1].outcome.kind = "result"
    /\ StagesRun(1) = StageNames
    /\ callers[1].outcome.value.debug.intent = "compare_rainfall_and_crops"

\* -------------------------------------------------------------------------
\* C6: a stage whose process returned has published exactly once on its
\* output topic: the event carries the value process returned and the
\* incoming metadata with 'processed_by' set to the stage.
StageFrames == {i \in 1..Len(stack) : stack[i].kind = "stage"}

InProcess(s, c) ==
    IF c = running /\ \E i \in StageFrames : stack[i].handler.fn = s /\ stack[i].pc \in {"process", "hung"}
    THEN 1 ELSE 0

C6_StageWiring ==
    /\ \A s \in StageSet, c \in CallIds :
          Cardinality(Entries("publish", s, OutputTopic(s), c)) =
              Cardinality(Entries("invoke", s, InputTopic(s), c))
              - Cardinality(Entries("raise", s, InputTopic(s), c)) - InProcess(s, c)
    /\ \A s \in StageSet, c \in CallIds :
          \A t \in Topics \ {OutputTopic(s), "pipeline.error"} : Entries("publish", s, t, c) = {}
    /\ \A i \in StageFrames :
          (stack[i].pc = "publishing" /\ i < Len(stack)) =>
              LET s == stack[i].handler.fn
                  in == stack[i].event
                  out == stack[i + 1].event
              IN /\ in.topic = InputTopic(s)
                 /\ out.topic = OutputTopic(s)
                 /\ out.data = ProcessResult(s, in.data)
                 /\ \E j \in 1..Len(history) : history[j] = out
                 /\ \A k \in DOMAIN in.metadata \ {"processed_by"} :
                        k \in DOMAIN out.metadata /\ out.metadata[k] = in.metadata[k]
                 /\ out.metadata["processed_by"] = s

C6_Witness ==
    \E i \in StageFrames :
        /\ stack[i].handler.fn = "DataLoadStage" /\ stack[i].pc = "publishing"
        /\ i < Len(stack)
        /\ stack[i].event.metadata = [source |-> "api", processed_by |-> "ParseStage"]
        /\ stack[i + 1].event.metadata = [source |-> "api", processed_by |-> "DataLoadStage"]

\* -------------------------------------------------------------------------
\* C7: a stage whose process raised has published exactly one
\* 'pipeline.error' event, with the failure's message and the stage's name,
\* and nothing on its output topic; the failure itself is what the publish
\* call that invoked the stage sees raised.
RaisedIn(s, c) == Entries("raise", s, InputTopic(s), c)

C7_StageFailure ==
    /\ \A s \in StageSet, c \in CallIds :
          RaisedIn(s, c) # {} =>
              /\ Cardinality(Entries("publish", s, "pipeline.error", c)) = 1
              /\ Entries("publish", s, OutputTopic(s), c) = {}
              /\ \A i \in RaisedIn(s, c) :
                     /\ trace[i + 1].op = "publish" /\ trace[i + 1].topic = "pipeline.error"
                     /\ trace[i + 1].handler = s
    /\ \A i \in StageFrames :
          (stack[i].pc = "errpublishing" /\ i < Len(stack)) =>
              LET s == stack[i].handler.fn
                  out == stack[i + 1].event
              IN /\ out.topic = "pipeline.error"
                 /\ out.data = [error |-> stack[i].err.msg, stage |-> s]
                 /\ \E j \in 1..Len(history) : history[j] = out
                 /\ \A r \in RaisedIn(s, running) : stack[i].err = trace[r].err
    /\ (TopIs("publish") /\ Top.invoked # <<>>) =>
          LET s == Top.invoked[Len(Top.invoked)].fn
          IN (s \in StageSet /\ RaisedIn(s, running) # {}) =>
                 \A r \in RaisedIn(s, running) : exc = trace[r].err

C7_Witness ==
    /\ TopIs("publish") /\ Top.event.topic = "query.parsed"
    /\ Top.invoked = <<Handler(1, "DataLoadStage")>>
    /\ exc = Exc("RuntimeError", "dataset unavailable")
    /\ Cardinality(Entries("publish", "DataLoadStage", "pipeline.error", running)) = 1

\* -------------------------------------------------------------------------
\* C8: while a stage's process blocks during call c, the call has not
\* finished before its deadline and has failed with Timeout once the
\* deadline has passed.
C8_TimeoutOnHang ==
    \A c \in CallIds :
        (running = c /\ Hung) =>
            /\ now < callers[c].started + TimeoutSecs => ~Finished(c)
            /\ now > callers[c].started + TimeoutSecs =>
                   Finished(c) /\ callers[c].outcome = TimeoutOutcome

\* -------------------------------------------------------------------------
\* C9: a 'pipeline.error' event delivered to _handle_error while the slot
\* holds an unfinished future finishes that future with a failure whose
\* message is the payload's 'error' entry, not with a result.
C9_ErrorResolvesSlot ==
    [][(HandleError /\ Armed(NextHandler.ex)) =>
          LET fid == result_future[NextHandler.ex]
          IN /\ futures'[fid].state = "exception"
             /\ futures'[fid].value.msg = Top.event.data.error
             /\ \A g \in CallIds \ {fid} : futures'[g] = futures[g]]_vars

C9_Witness ==
    /\ TopIs("publish") /\ Top.event.topic = "pipeline.error"
    /\ Top.invoked = <<Handler(1, "_handle_error")>>
    /\ Top.event.data = [error |-> "Unknown intent: unknown", stage |-> "AnalysisStage"]
    /\ result_future[1] = running
    /\ futures[running] = [state |-> "exception", value |-> Exc("Exception", "Unknown intent: unknown")]

\* -------------------------------------------------------------------------
\* C10 as claimed: the failure a call delivers to its caller when a process
\* raised is the generic one, with the message only.
C10_GenericFailureAtCaller ==
    \A c \in CallIds :
        (Finished(c) /\ ProcessRaises(c) # <<>>) =>
            callers[c].outcome = [kind |-> "raised",
                                  value |-> Exc("Exception", ProcessRaises(c)[1].err.msg)]

\* C10 as amended: the caller gets the failure the process raised, kind and
\* message, re-raised out of the publish of 'query.received'; the generic
\* failure with the message only is what the call's future holds.
C10_OriginalFailureAtCaller ==
    \A c \in CallIds :
        (Finished(c) /\ ProcessRaises(c) # <<>>) =>
            /\ Len(ProcessRaises(c)) = 1
            /\ callers[c].outcome = [kind |-> "raised", value |-> ProcessRaises(c)[1].err]
            /\ futures[c] = [state |-> "exception",
                             value |-> Exc("Exception", ProcessRaises(c)[1].err.msg)]
            /\ callers[c].ended = callers[c].started

C10_Witness ==
    /\ Finished(1)
    /\ ProcessRaises(1) # <<>>
    /\ callers[1].outcome.value = Exc("ValueError", "Unknown intent: unknown")
    /\ futures[1].value = Exc("Exception", "Unknown intent: unknown")

\* =========================================================================
\* Reading the trace of a client of the bus
Last(S) == CHOOSE i \in S : \A j \in S : j <= i

LastPublish == Last({i \in 1..Len(trace) : trace[i].op = "publish"})

\* The handlers subscribed to topic t when trace entry p was written: the
\* subscribe calls for t since the last clear, in the order they were made.
RegisteredAt(t, p) ==
    LET clears == {i \in 1..p : trace[i].op = "clear"}
        from == IF clears = {} THEN 0 ELSE Last(clears)
        sel == SelectSeq(SubSeq(trace, from + 1, p), LAMBDA x : x.op = "subscribe" /\ x.topic = t)
    IN [i \in 1..Len(sel) |-> Handler(0, sel[i].handler)]

\* The handler calls traced after entry p, in order.
InvokedAfter(p) ==
    LET sel == SelectSeq(SubSeq(trace, p + 1, Len(trace)), LAMBDA x : x.op = "invoke")
    IN [i \in 1..Len(sel) |-> [topic |-> sel[i].topic, handler |-> Handler(0, sel[i].handler)]]

\* -------------------------------------------------------------------------
\* C3: a publish whose handlers all return calls, inside the publish call,
\* the handlers subscribed to its topic, in the order of their subscribe
\* calls, once per subscribe call, and no handler of another topic.
C3_DispatchOrder ==
    /\ (TopIs("publish") /\ exc = NoExc) =>
          LET t == Top.event.topic
              reg == RegisteredAt(t, LastPublish)
              k == Len(Top.invoked)
          IN /\ k <= Len(reg)
             /\ Top.invoked = SubSeq(reg, 1, k)
             /\ InvokedAfter(LastPublish) = [i \in 1..k |-> [topic |-> t, handler |-> reg[i]]]
             /\ ~Dispatching => k = Len(reg)
    /\ client.pc = "returned" =>
          LET t == trace[LastPublish].topic
              reg == RegisteredAt(t, LastPublish)
          IN InvokedAfter(LastPublish) = [i \in 1..Len(reg) |-> [topic |-> t, handler |-> reg[i]]]

C3_Witness ==
    /\ client.pc = "returned"
    /\ trace[LastPublish].topic = "alpha"
    /\ subscribers["alpha"] = <<Handler(0, "H2"), Handler(0, "H1")>>
    /\ subscribers["beta"] = <<Handler(0, "H1")>>
    /\ Len(InvokedAfter(LastPublish)) = 2

\* -------------------------------------------------------------------------
\* C4: when the k-th handler of the topic raises, the k-1 handlers before it
\* were called, no handler after it is called for the event, and the publish
\* call fails with the failure that handler raised.
C4_DispatchAbort ==
    /\ (TopIs("publish") /\ exc # NoExc) =>
          LET t == Top.event.topic
              reg == RegisteredAt(t, LastPublish)
              k == Len(Top.invoked)
              last == trace[Len(trace)]
          IN /\ k >= 1 /\ k <= Len(reg)
             /\ Top.invoked = SubSeq(reg, 1, k)
             /\ InvokedAfter(LastPublish) = [i \in 1..k |-> [topic |-> t, handler |-> reg[i]]]
             /\ last.op = "raise" /\ last.handler = reg[k].fn
             /\ exc = last.err
    /\ client.pc = "raised" =>
          LET t == trace[LastPublish].topic
              reg == RegisteredAt(t, LastPublish)
              r == Last({i \in 1..Len(trace) : trace[i].op = "raise"})
              k == Len(InvokedAfter(LastPublish))
          IN /\ r > LastPublish
             /\ k >= 1 /\ k <= Len(reg)
             /\ InvokedAfter(LastPublish) = [i \in 1..k |-> [topic |-> t, handler |-> reg[i]]]
             /\ InvokedAfter(r) = <<>>
             /\ trace[r].handler = reg[k].fn
             /\ client.err = trace[r].err

C4_Witness ==
    /\ client.pc = "raised"
    /\ client.err = Exc("RuntimeError", "H2")
    /\ subscribers[trace[LastPublish].topic] = <<Handler(0, "H1"), Handler(0, "H2"), Handler(0, "H1")>>
    /\ Len(InvokedAfter(LastPublish)) = 2

\* -------------------------------------------------------------------------
\* C5: after n publish calls the history holds the last min(n, 100) events,
\* oldest first, at every moment: while a handler runs and after the call.
C5_HistoryBound ==
    LET n == client.published
    IN /\ Len(history) = IF n < 100 THEN n ELSE 100
       /\ \A i \in 1..Len(history) :
              /\ history[i].data.seq = n - Len(history) + i
              /\ history[i].topic = PlanTopic(client.plan, n - Len(history) + i)

C5_Witness ==
    /\ client.published = 150
    /\ Len(history) = 100
    /\ history[1].data.seq = 51 /\ history[100].data.seq = 150
    /\ TopIs("publish") /\ Top.invoked # <<>>

\* -------------------------------------------------------------------------
\* C11: ask answers every finished execute_query with exactly one status:
\* 200 for a result, 504 for a timeout, 400 when a stage's process raised a
\* ValueError (the analysis stage's unknown intent among them), 500 when it
\* raised anything else; and it answers 400 and 500 in no other case.
C11_AskMapping ==
    \A c \in CallIds :
        Finished(c) =>
            LET o == callers[c].outcome
                r == callers[c].response
                raises == ProcessRaises(c)
            IN /\ r \in {200, 400, 500, 504}
               /\ r = 200 <=> o.kind = "result"
               /\ r = 504 <=> o.kind = "timeout"
               /\ r = 400 <=> (raises # <<>> /\ raises[1].err.kind = "ValueError")
               /\ r = 500 <=> (raises # <<>> /\ raises[1].err.kind # "ValueError")

C11_Witness ==
    /\ Finished(1) /\ callers[1].response = 400
    /\ ProcessRaises(1) # <<>>
    /\ ProcessRaises(1)[1].handler = "AnalysisStage"
    /\ ProcessRaises(1)[1].err = Exc("ValueError", "Unknown intent: unknown")
    /\ Finished(2) /\ callers[2].response = 504

\* =========================================================================
\* One /ask request on the wired bus, with a harness around it that
\* publishes 'response.ready' and 'pipeline.error' events of its own and
\* registers the executor's stages and handlers again after a clear.
TerminalTopics == {"response.ready", "pipeline.error"}

\* The subscribe calls of QueryExecutor.__init__ made again on a cleared bus.
Rewire ==
    /\ running = 0 /\ stack = <<>>
    /\ subscribers = EmptyRegistry
    /\ Cardinality(Entries("subscribe", "rewire", "", 0)) < MaxRewires
    /\ subscribers' = ConstructExecutors(EmptyRegistry, NumExecutors)
    /\ trace' = Subscribed(trace, "", "rewire")
    /\ UNCHANGED <<history, stack, exc, futures, result_future, callers, running, client, now>>

\* The harness publishes one event of its own on a topic the executor
\* listens to.
StrayPublish(t) ==
    /\ client.pc = "idle"
    /\ ClientPublish(t)

NextExt ==
    \/ \E ex \in Executors, q \in Questions : ExecuteQuery(1, ex, q)
    \/ Dispatch
    \/ WaitFor(1)
    \/ WaitForResume(1)
    \/ Tick
    \/ ClearSubscribers
    \/ Rewire
    \/ \E t \in TerminalTopics : StrayPublish(t)

SpecExt == Init /\ [][NextExt]_vars

\* The slot of executor ex holds no future, or one that has a result, a
\* failure or was cancelled by the timeout.
SlotClosed(ex) ==
    \/ result_future[ex] = 0
    \/ futures[result_future[ex]].state \in {"result", "exception", "cancelled"}

\* -------------------------------------------------------------------------
\* C12: a 'response.ready' or 'pipeline.error' event that reaches the
\* executor while its slot is empty, resolved, failed or timed out changes
\* no future and not the slot, and the handler does not raise; a future that
\* is finished never changes again.
C12_StrayEventNoOp ==
    [][/\ ((HandleResult \/ HandleError) /\ SlotClosed(NextHandler.ex))
           => (futures' = futures /\ result_future' = result_future /\ exc' = NoExc)
       /\ \A f \in CallIds : Done(futures[f]) => futures'[f] = futures[f]]_vars

C12_Witness ==
    /\ futures[1].state = "cancelled"
    /\ callers[1].outcome = TimeoutOutcome
    /\ trace[Len(trace)].op = "invoke"
    /\ trace[Len(trace)].handler = "_handle_result"
    /\ trace[Len(trace)].call = 0

\* =========================================================================
\* Two requests on one executor whose bus is cleared and later registered
\* again, so that the first request can wait while the second runs its
\* chain.
OverlapCalls == {1, 2}

NextOverlap ==
    \/ \E c \in OverlapCalls, ex \in Executors, q \in Questions : ExecuteQuery(c, ex, q)
    \/ Dispatch
    \/ \E c \in OverlapCalls : WaitFor(c)
    \/ \E c \in OverlapCalls : WaitForResume(c)
    \/ Tick
    \/ ClearSubscribers
    \/ Rewire

SpecOverlap == Init /\ [][NextOverlap]_vars

\* Request d was started while request c was suspended in its wait.
Overlapped(c, d) ==
    /\ c < d
    /\ callers[d].pc # "idle"
    /\ callers[c].deadline > 0
    /\ \/ callers[c].pc = "waiting"
       \/ Finished(c) /\ callers[d].started < callers[c].ended

\* -------------------------------------------------------------------------
\* C13 (as stated): when a request overlapped the wait of an earlier one and
\* returned a result, the earlier request returns that result.
C13_FirstCallerGetsSecondResult ==
    \A c, d \in CallIds :
        (/\ Overlapped(c, d)
         /\ Finished(c) /\ Finished(d)
         /\ callers[d].outcome.kind = "result")
        => callers[c].outcome = callers[d].outcome

\* C13 (amended): a request whose wait was overlapped by a later request on
\* the same executor never returns a result, the later request's or any
\* other: its future is not touched after the slot is overwritten and the
\* request ends in the timeout.
C13_FirstCallerNeverGetsResult ==
    \A c, d \in CallIds :
        Overlapped(c, d) =>
            /\ futures[c].state # "result"
            /\ Finished(c) => callers[c].outcome.kind # "result"

C13_Witness ==
    /\ Overlapped(1, 2)
    /\ Finished(2) /\ callers[2].outcome.kind = "result"
    /\ Finished(1) /\ callers[1].outcome = TimeoutOutcome

\* The places of the trace where something was published on a topic the
\* executor listens to during request c.
TerminalPublishes(c) ==
    {i \in 1..Len(trace) : /\ trace[i].op = "publish" /\ trace[i].call = c
                           /\ trace[i].topic \in TerminalTopics}

\* The place of the trace where request c published 'query.received'.
StartOf(c) == CHOOSE i \in Entries("publish", "execute_query", "query.received", c) : TRUE

\* -------------------------------------------------------------------------
\* C14 (as stated): when a request overlapped the wait of an earlier one,
\* the later request's future is resolved by a 'response.ready' or
\* 'pipeline.error' event that the earlier request's chain published after
\* the later request began.
C14_FirstChainResolvesSecond ==
    \A c, d \in CallIds :
        (Overlapped(c, d) /\ futures[d].state \in {"result", "exception"})
        => \E i \in TerminalPublishes(c) : i > StartOf(d)

\* C14 (amended): a request started while an earlier one waits takes the
\* executor's slot over, the earlier future still pending; every event of
\* the earlier request's chain was published before the later request
\* began, and the later request's future is resolved only by an event
\* published during the later request itself.
C14_SecondResolvedByOwnChain ==
    \A c, d \in CallIds :
        (Overlapped(c, d) /\ callers[c].ex = callers[d].ex) =>
            /\ result_future[callers[c].ex] >= d
            /\ futures[c].state \in {"pending", "cancelled"}
            /\ \A i \in 1..Len(trace) : trace[i].call = c => i < StartOf(d)
            /\ futures[d].state \in {"result", "exception"} => TerminalPublishes(d) # {}

C14_Witness ==
    /\ Overlapped(1, 2)
    /\ result_future[1] = 2
    /\ futures[1].state = "pending"
    /\ futures[2].state = "exception"
    /\ TerminalPublishes(1) = {}

\* -------------------------------------------------------------------------
\* C15: a publish on a topic that has no subscriber, because none was ever
\* subscribed or because the registry was cleared, returns without a
\* failure, calls no handler, and leaves exactly one new event, its own, at
\* the end of the history.
C15_NoSubscribers ==
    client.pc \in {"calling", "returned", "raised"} =>
        LET p == LastPublish
            t == trace[p].topic
        IN RegisteredAt(t, p) = <<>> =>
              /\ client.pc # "raised" /\ client.err = NoExc /\ exc = NoExc
              /\ InvokedAfter(p) = <<>>
              /\ TopIs("publish") => Top.hs = <<>>
              /\ Len(history) = client.published
              /\ history[Len(history)].topic = t
              /\ history[Len(history)].data = [seq |-> client.published]

C15_Witness ==
    /\ client.pc = "returned"
    /\ \E i, j \in 1..LastPublish :
          /\ i < j
          /\ trace[i].op = "subscribe" /\ trace[i].topic = trace[LastPublish].topic
          /\ trace[j].op = "clear"
    /\ RegisteredAt(trace[LastPublish].topic, LastPublish) = <<>>
    /\ Len(history) = 1

\* How often x occurs in the sequence s.
Count(s, x) == Cardinality({i \in 1..Len(s) : s[i] = x})

\* -------------------------------------------------------------------------
\* C16: subscribe never de-duplicates.  Each topic's list is the sequence of
\* the subscribe calls made for that topic since the last clear, in call
\* order, repeated handlers included, and the lists of other topics are
\* untouched; a publish that returns has called each handler as many times
\* as it was subscribed to the topic.
C16_NoDeduplication ==
    /\ \A t \in ClientTopics : subscribers[t] = RegisteredAt(t, Len(trace))
    /\ \A t \in Topics \ ClientTopics : subscribers[t] = <<>>
    /\ client.pc = "returned" =>
          LET p == LastPublish
              t == trace[p].topic
              called == InvokedAfter(p)
          IN \A fn \in ClientHandlers :
                Count([i \in 1..Len(called) |-> called[i].handler], Handler(0, fn))
                    = Cardinality({i \in 1..p : /\ trace[i].op = "subscribe"
                                                /\ trace[i].topic = t
                                                /\ trace[i].handler = fn
                                                /\ \A j \in i..p : trace[j].op # "clear"})

C16_Witness ==
    /\ client.pc = "returned"
    /\ trace[LastPublish].topic = "alpha"
    /\ subscribers["alpha"] = <<Handler(0, "H1"), Handler(0, "H1")>>
    /\ subscribers["beta"] = <<Handler(0, "H2")>>
    /\ Len(InvokedAfter(LastPublish)) = 2
    /\ InvokedAfter(LastPublish)[2].handler = Handler(0, "H1")

\* =========================================================================
\* A client that publishes and reads the history.  The argument of
\* get_event_history is <<>> when no topic is given (None) and <<t>> for the
\* topic t; the list it returns is a record of its elements and of whether
\* it is the buffer object itself (live) or a list of its own.
NoTopic == <<>>

\* Python's truth value of the argument: None and "" are false.
Truthy(arg) == arg # NoTopic /\ arg[1] # ""

\* Mutant: without a topic the buffer itself is returned, not a copy.
GetEventHistoryNoCopy(h, arg) ==
    IF Truthy(arg)
    THEN [events |-> SelectSeq(h, LAMBDA e : e.topic = arg[1]), live |-> FALSE]
    ELSE [events |-> h, live |-> TRUE]

\* EventBus.get_event_history: `if topic:` selects the events of the topic
\* into a new list, otherwise the buffer is copied.
GetEventHistory(h, arg) ==
    IF Truthy(arg)
    THEN [events |-> SelectSeq(h, LAMBDA e : e.topic = arg[1]), live |-> FALSE]
    ELSE [events |-> h, live |-> FALSE]

HistoryArgs == {NoTopic, <<"">>, <<"alpha">>, <<"beta">>}

InitSnapshot ==
    /\ subscribers \in BurstRegistries
    /\ history = <<>>
    /\ stack = <<>>
    /\ exc = NoExc
    /\ futures = [c \in CallIds |-> NoFuture]
    /\ result_future = [ex \in Executors |-> 0]
    /\ callers = [c \in CallIds |-> IdleCaller]
    /\ running = 0
    /\ client = IdleClient
    /\ now = 0
    /\ trace = <<>>

\* bus.publish by the client; a list that is the buffer itself shows the
\* new event.
SnapPublish(t) ==
    /\ running = 0 /\ stack = <<>>
    /\ client.published < MaxEvents
    /\ DoPublish(<<>>, <<>>, 0, "client", t, [seq |-> client.published + 1], [source |-> "client"])
    /\ client' = [client EXCEPT !.pc = "calling", !.err = NoExc, !.published = @ + 1,
                                !.got = IF @.live THEN [@ EXCEPT !.events = history'] ELSE @]
    /\ UNCHANGED <<subscribers, exc, futures, result_future, callers, running, now>>

\* bus.get_event_history(topic) or bus.get_event_history() by the client.
SnapGet(arg) ==
    /\ running = 0 /\ stack = <<>>
    /\ client' = [client EXCEPT !.pc = "got", !.arg = arg, !.got = GetEventHistory(history, arg)]
    /\ UNCHANGED <<subscribers, history, stack, exc, futures, result_future, callers, running, now, trace>>

\* The client empties the list it was returned (list.clear()); if the list
\* is the buffer itself the buffer is emptied.
SnapMutate ==
    /\ running = 0 /\ stack = <<>>
    /\ client.pc = "got"
    /\ client' = [client EXCEPT !.pc = "mutated", !.got.events = <<>>]
    /\ history' = IF client.got.live THEN <<>> ELSE history
    /\ UNCHANGED <<subscribers, stack, exc, futures, result_future, callers, running, now, trace>>

NextSnapshot ==
    \/ \E t \in ClientTopics : SnapPublish(t)
    \/ \E arg \in HistoryArgs : SnapGet(arg)
    \/ SnapMutate
    \/ ClientHandlerReturn
    \/ PublishReturn

SpecSnapshot == InitSnapshot /\ [][NextSnapshot]_vars

\* -------------------------------------------------------------------------
\* C17: get_event_history called with a topic, whatever string it is,
\* returns the buffered events of that topic in buffer order, and called
\* without a topic the whole buffer in order.
C17_FilterByTopic ==
    client.pc = "got" =>
        client.got.events =
            IF client.arg = NoTopic THEN history
            ELSE SelectSeq(history, LAMBDA e : e.topic = client.arg[1])

\* -------------------------------------------------------------------------
\* C18: get_event_history changes neither the buffer nor the registry; a
\* publish after it does not change the list it returned; emptying the
\* returned list does not change the buffer.
C18_Snapshot ==
    [][/\ (\E arg \in HistoryArgs : SnapGet(arg))
           => (history' = history /\ subscribers' = subscribers)
       /\ (\E t \in ClientTopics : SnapPublish(t))
           => (client'.got = client.got /\ history' # history)
       /\ SnapMutate
           => (history' = history /\ subscribers' = subscribers)]_vars

C18_Witness ==
    /\ client.pc = "mutated"
    /\ client.arg = NoTopic
    /\ client.got.events = <<>>
    /\ Len(history) = 2
    /\ client.published = 2

\* What was published and which handlers were called during request c, in
\* order.
StepsOf(c) ==
    LET sel == SelectSeq(trace, LAMBDA t : t.call = c /\ t.op \in {"publish", "invoke"})
    IN [i \in 1..Len(sel) |-> [op |-> sel[i].op, topic |-> sel[i].topic, handler |-> sel[i].handler]]

\* The steps of a request in which every stage ran and returned:
\* execute_query publishes 'query.received'; each stage in turn is called
\* with the event of its input topic and, its process having returned,
\* publishes on its output topic; _handle_result is called last.
ChainSteps ==
    LET n == Len(StageNames)
        step(i) ==
            IF i = 1 THEN [op |-> "publish", topic |-> ChainTopics[1], handler |-> "execute_query"]
            ELSE IF i = 2 * n + 2
                 THEN [op |-> "invoke", topic |-> ChainTopics[n + 1], handler |-> "_handle_result"]
            ELSE IF i % 2 = 0
                 THEN [op |-> "invoke", topic |-> ChainTopics[i \div 2], handler |-> StageNames[i \div 2]]
            ELSE [op |-> "publish", topic |-> ChainTopics[(i + 1) \div 2], handler |-> StageNames[(i - 1) \div 2]]
    IN [i \in 1..(2 * n + 2) |-> step(i)]

PublishedTopics ==
    LET sel == SelectSeq(trace, LAMBDA t : t.op = "publish")
    IN [i \in 1..Len(sel) |-> sel[i].topic]

\* -------------------------------------------------------------------------
\* C19: a request that returned a result published 'query.received',
\* 'query.parsed', 'data.loaded', 'analysis.complete', 'response.ready' in
\* this order and nothing else, and ran Parse, DataLoad, Analysis, Format in
\* this order, each stage called after the stage before it had published
\* the value its process returned; the history holds the events in the
\* order they were published.
C19_ChainOrder ==
    /\ \A c \in CallIds :
          (Finished(c) /\ callers[c].outcome.kind = "result") => StepsOf(c) = ChainSteps
    /\ [i \in 1..Len(history) |-> history[i].topic] = PublishedTopics

C19_Witness ==
    /\ Finished(1) /\ callers[1].outcome.kind = "raised"
    /\ Finished(2) /\ callers[2].outcome.kind = "result"
    /\ StepsOf(2) = ChainSteps
    /\ Len(history) > 5

\* The keys a stage adds to the payload it received.
AddedKeys(s) ==
    CASE s = "ParseStage" -> {"intent", "params"}
      [] s = "DataLoadStage" -> {"datasets"}
      [] s = "AnalysisStage" -> {"results"}

\* -------------------------------------------------------------------------
\* C20: the payload the parse, data and analysis stages publish has every
\* key of the payload the stage received, with its value, and the keys the
\* stage adds besides: 'query.parsed' extends 'query.received',
\* 'data.loaded' extends 'query.parsed', 'analysis.complete' extends
\* 'data.loaded'.
C20_PayloadGrows ==
    \A i \in StageFrames :
        (/\ i < Len(stack)
         /\ stack[i].pc = "publishing"
         /\ stack[i].handler.fn \in {"ParseStage", "DataLoadStage", "AnalysisStage"})
        => LET in == stack[i].event.data
               out == stack[i + 1].event.data
           IN /\ stack[i + 1].kind = "publish"
              /\ stack[i + 1].event.topic = OutputTopic(stack[i].handler.fn)
              /\ DOMAIN in \subseteq DOMAIN out
              /\ \A k \in DOMAIN in : out[k] = in[k]
              /\ DOMAIN out = DOMAIN in \cup AddedKeys(stack[i].handler.fn)

C20_Witness ==
    /\ TopIs("publish")
    /\ Top.event.topic = "analysis.complete"
    /\ DOMAIN Top.event.data = {"question", "intent", "params", "datasets", "results"}
    /\ Len(stack) = 7
    /\ stack[6].event.topic = "data.loaded"
    /\ DOMAIN stack[6].event.data = {"question", "intent", "params", "datasets"}

\* -------------------------------------------------------------------------
\* C21: no step changes an event that exists.  The history only grows at
\* its end and loses its oldest entry, every entry that stays keeps its
\* topic, payload, timestamp and metadata, and the event a handler is
\* working on stays as it was while the handler's frame is on the stack; in
\* particular the stage that forwards it leaves its metadata alone.
C21_EventsImmutable ==
    [][/\ \/ history' = history
          \/ /\ history' # <<>>
             /\ history' \in {Append(history, history'[Len(history')]),
                              Tail(Append(history, history'[Len(history')]))}
       /\ \A i \in 1..Len(stack) : i <= Len(stack') => stack'[i].event = stack[i].event]_vars

C21_Witness ==
    /\ Len(history) = 5
    /\ history[1] = Event("query.received", [question |-> "rainfall top crops in A and B"],
                          [source |-> "api"], 0)
    /\ history[2].metadata = [source |-> "api", processed_by |-> "ParseStage"]
    /\ history[5].metadata = [source |-> "api", processed_by |-> "FormatStage"]

\* =========================================================================
\* Stages constructed one by one on an empty bus, in any order, and a
\* client that publishes an event a stage can process on a chain topic.
RECURSIVE SamplePayload(_)
SamplePayload(t) ==
    IF t = "query.received" THEN [question |-> "rainfall top crops in A and B"]
    ELSE LET s == CHOOSE x \in StageSet : OutputTopic(x) = t
         IN ProcessResult(s, SamplePayload(InputTopic(s)))

StageTopics == {InputTopic(s) : s \in StageSet}

Constructed(s) == Entries("subscribe", s, InputTopic(s), 0) # {}

\* SomeStage(event_bus): the constructor of stage class s.
ConstructStage(s) ==
    /\ running = 0 /\ stack = <<>>
    /\ ~Constructed(s)
    /\ subscribers' = RegisterStage(subscribers, 1, s)
    /\ trace' = Subscribed(trace, InputTopic(s), s)
    /\ UNCHANGED <<history, stack, exc, futures, result_future, callers, running, client, now>>

\* bus.publish(t, payload) by the client.
BuildPublish(t) ==
    /\ running = 0 /\ stack = <<>>
    /\ client.published < MaxPublishes
    /\ client' = [client EXCEPT !.pc = "calling", !.err = NoExc, !.published = @ + 1]
    /\ DoPublish(<<>>, trace, 0, "client", t, SamplePayload(t), [source |-> "client"])
    /\ UNCHANGED <<subscribers, exc, futures, result_future, callers, running, now>>

NextBuild ==
    \/ \E s \in StageSet : ConstructStage(s)
    \/ \E t \in StageTopics : BuildPublish(t)
    \/ InvokeStage
    \/ StageProcessOk
    \/ StageProcessRaise
    \/ StageReturn
    \/ StageCatch
    \/ StageReraise
    \/ PublishReturn
    \/ PublishRaise

SpecBuild == InitBus /\ [][NextBuild]_vars

\* -------------------------------------------------------------------------
\* C22: constructing a stage puts exactly one dispatcher, the stage's, on
\* the stage's input topic and nothing on any other topic; from then on
\* every event published on that topic, the first included, is handed to
\* the stage once, nothing else having been called to activate it.
C22_ConstructionSubscribes ==
    /\ \A t \in Topics :
          subscribers[t] =
              IF \E s \in StageSet : InputTopic(s) = t /\ Constructed(s)
              THEN <<Handler(1, CHOOSE s \in StageSet : InputTopic(s) = t)>>
              ELSE <<>>
    /\ stack = <<>> =>
          \A s \in StageSet :
              Cardinality(Entries("invoke", s, InputTopic(s), 0)) =
                  Cardinality({p \in 1..Len(trace) :
                                  /\ trace[p].op = "publish"
                                  /\ trace[p].topic = InputTopic(s)
                                  /\ \E i \in Entries("subscribe", s, InputTopic(s), 0) : i < p})

C22_Witness ==
    /\ client.pc = "returned"
    /\ Len(trace) = 5
    /\ trace[1].op = "subscribe" /\ trace[1].handler = "DataLoadStage"
    /\ trace[2].op = "publish" /\ trace[2].topic = "query.parsed"
    /\ trace[3].op = "invoke" /\ trace[3].handler = "DataLoadStage"
    /\ subscribers["query.parsed"] = <<Handler(1, "DataLoadStage")>>
    /\ subscribers["data.loaded"] = <<>>

PublishFrames == {i \in 1..Len(stack) : stack[i].kind = "publish"}

\* -------------------------------------------------------------------------
\* C23: the event of a publish is in the history before the first
\* subscriber is called, as its last entry; the event a handler publishes
\* comes after the event that triggered the handler; and an event stays in
\* the history when its dispatch fails.
C23_HistoryBeforeDispatch ==
    /\ \A i \in PublishFrames :
          /\ \E j \in 1..Len(history) : history[j] = stack[i].event
          /\ (i = Len(stack) /\ stack[i].invoked = <<>>) => history[Len(history)] = stack[i].event
          /\ \A k \in PublishFrames :
                i < k => \E j, l \in 1..Len(history) :
                            j < l /\ history[j] = stack[i].event /\ history[l] = stack[k].event
    /\ Len(history) = Cardinality({p \in 1..Len(trace) : trace[p].op = "publish"})

C23_Witness ==
    /\ TopIs("publish") /\ exc # NoExc
    /\ Top.event.topic = "data.loaded"
    /\ Len(history) = 4
    /\ history[3] = Top.event
    /\ history[4].topic = "pipeline.error"

\* -------------------------------------------------------------------------
\* C24: when the publish of 'query.received' has returned after the four
\* stages ran without a failure, the request's future already holds the
\* payload of the 'response.ready' event; the request then ends without
\* having been suspended (no deadline was set) and at the time it started.
C24_ResolvedBeforeWait ==
    \A c \in CallIds :
        (/\ callers[c].pc \in {"published", "waiting", "done"}
         /\ StagesRun(c) = StageNames
         /\ ProcessRaises(c) = <<>>)
        => /\ futures[c].state = "result"
           /\ futures[c].value = EventsOn("response.ready")[Len(EventsOn("response.ready"))].data
           /\ callers[c].pc # "waiting"
           /\ callers[c].deadline = 0
           /\ Finished(c) => (callers[c].ended = callers[c].started
                              /\ callers[c].outcome = [kind |-> "result", value |-> futures[c].value])

C24_Witness ==
    /\ running = 1 /\ stack = <<>>
    /\ callers[1].pc = "published"
    /\ futures[1].state = "result"
    /\ DOMAIN futures[1].value = {"answer", "tables", "citations", "debug"}

\* -------------------------------------------------------------------------
\* C25: the 'pipeline.error' event a stage publishes has the metadata of
\* the event the stage was called with, key for key: the stage's own name
\* is not put under 'processed_by', and a 'processed_by' that an upstream
\* stage set is still that stage's.
C25_ErrorMetadataUnchanged ==
    \A i \in StageFrames :
        (i < Len(stack) /\ stack[i].pc = "errpublishing")
        => LET s == stack[i].handler.fn
               md == stack[i + 1].event.metadata
           IN /\ stack[i + 1].kind = "publish"
              /\ stack[i + 1].event.topic = "pipeline.error"
              /\ md = stack[i].event.metadata
              /\ md.source = "api"
              /\ "processed_by" \in DOMAIN md <=> s # "ParseStage"
              /\ "processed_by" \in DOMAIN md =>
                     \E k \in 2..Len(StageNames) : s = StageNames[k] /\ md.processed_by = StageNames[k - 1]

C25_Witness ==
    /\ TopIs("publish")
    /\ Top.event.topic = "pipeline.error"
    /\ Top.event.data.stage = "AnalysisStage"
    /\ Top.event.metadata = [source |-> "api", processed_by |-> "DataLoadStage"]
    /\ Top.invoked = <<>>

\* -------------------------------------------------------------------------
\* C26: the registry changes only when clear_subscribers is called: no
\* execute_query, no dispatch step of the bus or of a stage, no handler of
\* the executor and no wait adds or removes a subscriber, so until a clear
\* the registry is the one the executor's construction left.
C26_RegistryFixed ==
    [][/\ subscribers' # subscribers => ClearSubscribers
       /\ (\A i \in 1..Len(trace) : trace[i].op # "clear") => subscribers = WiredRegistry]_vars

C26_Witness ==
    /\ Finished(1) /\ callers[1].outcome.kind = "result"
    /\ Finished(2) /\ callers[2].outcome.kind = "raised"
    /\ subscribers = WiredRegistry
    /\ Len(subscribers["query.received"]) = 1

\* The event of the publish traced at place p: the history has one entry
\* per publish while nothing has been evicted.
EventAt(p) == history[Cardinality({i \in 1..p : trace[i].op = "publish"})]

\* The payloads of the 'pipeline.error' events published during request c,
\* in order.
ErrorEventsOf(c) ==
    LET P == PublishedOn("pipeline.error", c)
        nth(n) == CHOOSE p \in P : Cardinality({x \in P : x <= p}) = n
    IN [n \in 1..Cardinality(P) |-> EventAt(nth(n)).data]

PlaceInChain(s) == CHOOSE k \in 1..Len(StageNames) : StageNames[k] = s

\* -------------------------------------------------------------------------
\* C27: when the process of the k-th stage of the chain raised, the request
\* ends with exactly k 'pipeline.error' events published: the first names
\* the failing stage, the next ones the stages before it, nearest first,
\* each with the message of the failure; the request's future fails with
\* that message as soon as the first of them is dispatched.
C27_ErrorPerUpstreamStage ==
    \A c \in CallIds :
        ProcessRaises(c) # <<>> =>
            LET r == ProcessRaises(c)[1]
                k == PlaceInChain(r.handler)
                errs == ErrorEventsOf(c)
            IN /\ Len(ProcessRaises(c)) = 1
               /\ Len(errs) <= k
               /\ \A j \in 1..Len(errs) :
                      errs[j] = [error |-> r.err.msg, stage |-> StageNames[k + 1 - j]]
               /\ Len(errs) >= 2 => futures[c] = [state |-> "exception", value |-> Exc("Exception", r.err.msg)]
               /\ Finished(c) =>
                      /\ Len(errs) = k
                      /\ futures[c] = [state |-> "exception", value |-> Exc("Exception", r.err.msg)]

C27_Witness ==
    /\ Finished(1)
    /\ ProcessRaises(1) # <<>>
    /\ ProcessRaises(1)[1].handler = "FormatStage"
    /\ Len(ErrorEventsOf(1)) = 4
    /\ ErrorEventsOf(1)[4].stage = "ParseStage"
    /\ ErrorEventsOf(1)[1].stage = "FormatStage"

\* -------------------------------------------------------------------------
\* C28: a request whose publish returned with its future still pending is
\* suspended with a deadline 30 time units after its start; it is not
\* resumed before the deadline, it ends at the deadline with the timeout,
\* its future cancelled, and the 'query.received' event it published is
\* still in the history.
C28_TimeoutAtDeadline ==
    \A c \in CallIds :
        callers[c].deadline > 0 =>
            /\ callers[c].deadline = callers[c].started + 30
            /\ PublishedOn("response.ready", c) = {} /\ PublishedOn("pipeline.error", c) = {}
            /\ callers[c].pc \in {"waiting", "done"}
            /\ callers[c].pc = "waiting" => futures[c].state = "pending"
            /\ Finished(c) =>
                   /\ callers[c].outcome = TimeoutOutcome
                   /\ callers[c].ended = callers[c].started + 30
                   /\ futures[c].state = "cancelled"
            /\ \E j \in 1..Len(history) :
                   history[j] = Event("query.received", [question |-> callers[c].question],
                                      [source |-> "api"], callers[c].started)

C28_Witness ==
    /\ Finished(1) /\ callers[1].outcome = TimeoutOutcome
    /\ callers[1].started = 0 /\ callers[1].ended = 30 /\ now = 30
    /\ history = <<Event("query.received", [question |-> "hello"], [source |-> "api"], 0)>>

\* Request c waits on a future that is no longer in its executor's slot.
Orphaned(c) ==
    /\ callers[c].pc = "waiting"
    /\ result_future[callers[c].ex] # c

\* -------------------------------------------------------------------------
\* C29: while a request waits on a future that a later request has replaced
\* in the executor's slot, no step gives that future a result or a failure:
\* the only step that changes it is the timeout, which cancels it and ends
\* the request with the timeout at its deadline.
C29_OrphanedSlotOnlyTimesOut ==
    [][\A c \in CallIds :
          Orphaned(c) =>
              \/ futures'[c] = futures[c] /\ callers'[c] = callers[c]
              \/ /\ futures[c].state = "pending"
                 /\ futures'[c].state = "cancelled"
                 /\ callers'[c].pc = "done"
                 /\ callers'[c].outcome = TimeoutOutcome
                 /\ now = callers[c].deadline]_vars

C29_Witness ==
    /\ Orphaned(1)
    /\ futures[1].state = "pending"
    /\ Finished(2) /\ callers[2].outcome.kind = "raised"
    /\ now = callers[1].deadline

\* What the chain returns for question q when every process returns.
RECURSIVE PayloadAfter(_, _)
PayloadAfter(q, k) ==
    IF k = 0 THEN [question |-> q]
    ELSE ProcessResult(StageNames[k], PayloadAfter(q, k - 1))

\* The outcome of request d as its own run determines it: the failure its
\* own stage raised, else the chain's value for its own question when its
\* four stages ran, else (no subscriber reached) the timeout.
OwnOutcome(d) ==
    IF ProcessRaises(d) # <<>>
    THEN [kind |-> "raised", value |-> ProcessRaises(d)[1].err]
    ELSE IF StagesRun(d) = StageNames
         THEN [kind |-> "result", value |-> PayloadAfter(callers[d].question, Len(StageNames))]
         ELSE TimeoutOutcome

\* -------------------------------------------------------------------------
\* C30: a request that overlaps no earlier request is given a future of its
\* own, pending, in the executor's slot, and ends with the outcome its own
\* question and its own run determine, whatever the earlier requests ended
\* in: a result, a stage failure or a timeout.
C30_CallsIndependent ==
    \A d \in CallIds :
        (\A c \in CallIds : c < d => (Finished(c) /\ ~Overlapped(c, d))) =>
            /\ (callers[d].pc = "publishing" /\ Len(stack) = 1 /\ Top.invoked = <<>>)
                   => (futures[d] = Pending /\ result_future[callers[d].ex] = d)
            /\ Finished(d) => callers[d].outcome = OwnOutcome(d)

C30_Witness ==
    /\ Finished(1) /\ callers[1].outcome = TimeoutOutcome
    /\ ~Overlapped(1, 2)
    /\ Finished(2) /\ callers[2].outcome.kind = "result"
    /\ callers[2].outcome = OwnOutcome(2)
    /\ callers[2].started = 30

\* The topics published on during request c, in order.
PublishedTopicsOf(c) ==
    LET sel == SelectSeq(trace, LAMBDA t : t.op = "publish" /\ t.call = c)
    IN [i \in 1..Len(sel) |-> sel[i].topic]

\* -------------------------------------------------------------------------
\* C31: for a question the parser does not recognise the parse stage never
\* raises; when the data stage loaded the datasets, the request ends with
\* the analysis stage's ValueError for the intent 'unknown', having run the
\* parse, data and analysis stages and published 'query.received',
\* 'query.parsed' (with intent 'unknown'), 'data.loaded' and three error
\* events, no 'analysis.complete' and no 'response.ready'.
C31_UnknownFailsInAnalysis ==
    \A c \in CallIds :
        (callers[c].question = "hello" /\ StagesRun(c) # <<>>) =>
            /\ \A i \in 1..Len(ProcessRaises(c)) : ProcessRaises(c)[i].handler # "ParseStage"
            /\ (/\ Finished(c)
                /\ ProcessRaises(c) # <<>>
                /\ ProcessRaises(c)[1].handler # "DataLoadStage") =>
                   /\ Len(ProcessRaises(c)) = 1
                   /\ ProcessRaises(c)[1].handler = "AnalysisStage"
                   /\ callers[c].outcome =
                          [kind |-> "raised", value |-> Exc("ValueError", "Unknown intent: unknown")]
                   /\ StagesRun(c) = <<"ParseStage", "DataLoadStage", "AnalysisStage">>
                   /\ PublishedTopicsOf(c) =
                          <<"query.received", "query.parsed", "data.loaded",
                            "pipeline.error", "pipeline.error", "pipeline.error">>
                   /\ EventAt(CHOOSE p \in PublishedOn("query.parsed", c) : TRUE).data.intent = "unknown"

C31_Witness ==
    /\ Finished(1) /\ callers[1].question = "hello"
    /\ callers[1].outcome.kind = "raised"
    /\ callers[1].outcome.value.msg = "Unknown intent: unknown"
    /\ Len(history) = 6
    /\ history[3].topic = "data.loaded" /\ history[3].data.intent = "unknown"
    /\ history[6].data.stage = "ParseStage"

\* =========================================================================
\* One request on the wired bus, for a question of each intent, with
\* stages that do not block.
NextIntents ==
    \/ \E ex \in Executors, q \in AllQuestions : ExecuteQuery(1, ex, q)
    \/ InvokeStage
    \/ HandleResult
    \/ HandleError
    \/ StageProcessOk
    \/ StageProcessRaise
    \/ StageReturn
    \/ StageCatch
    \/ StageReraise
    \/ PublishReturn
    \/ PublishRaise
    \/ WaitFor(1)

SpecIntents == Init /\ [][NextIntents]_vars

\* -------------------------------------------------------------------------
\* C32: whenever the analysis stage is called with one of the four intents,
\* the params it was handed have every key its analysis reads with
\* params[key], so that no such read raises KeyError.
C32_ParamsComplete ==
    \A i \in StageFrames :
        (stack[i].handler.fn = "AnalysisStage" /\ stack[i].event.data.intent \in KnownIntents)
        => MissingKeys(stack[i].event.data.intent, stack[i].event.data.params) = <<>>

\* =========================================================================
\* Several executors constructed on the one global bus, and one request to
\* one of them, with stages that do not block.
SharedExecutors == 1..MaxExecutors

InitShared ==
    /\ subscribers = ConstructExecutors(EmptyRegistry, MaxExecutors)
    /\ history = <<>>
    /\ stack = <<>>
    /\ exc = NoExc
    /\ futures = [c \in CallIds |-> NoFuture]
    /\ result_future = [ex \in SharedExecutors |-> 0]
    /\ callers = [c \in CallIds |-> IdleCaller]
    /\ running = 0
    /\ client = IdleClient
    /\ now = 0
    /\ trace = <<>>

NextShared ==
    \/ \E ex \in SharedExecutors, q \in Questions : ExecuteQuery(1, ex, q)
    \/ InvokeStage
    \/ HandleResult
    \/ HandleError
    \/ StageProcessOk
    \/ StageProcessRaise
    \/ StageReturn
    \/ StageCatch
    \/ StageReraise
    \/ PublishReturn
    \/ PublishRaise
    \/ WaitFor(1)

SpecShared == InitShared /\ [][NextShared]_vars

RECURSIVE Pow(_, _)
Pow(n, k) == IF k = 0 THEN 1 ELSE n * Pow(n, k - 1)

\* How many times handler fn was called during call c.
Runs(fn, c) == Cardinality({p \in 1..Len(trace) :
                   trace[p].op = "invoke" /\ trace[p].handler = fn /\ trace[p].call = c})

\* -------------------------------------------------------------------------
\* C33: with n executors constructed on the one bus, a request in which no
\* stage fails runs Parse, DataLoad, Analysis and Format n, n^2, n^3 and n^4
\* times and publishes n^4 'response.ready' events, and each of them is
\* delivered to the result handler of every executor, in construction order.
C33_StagesMultiply ==
    /\ (Finished(1) /\ ProcessRaises(1) = <<>>) =>
          /\ \A i \in 1..Len(StageNames) : Runs(StageNames[i], 1) = Pow(MaxExecutors, i)
          /\ Cardinality(PublishedOn("response.ready", 1)) = Pow(MaxExecutors, 4)
          /\ Runs("_handle_result", 1) = Pow(MaxExecutors, 5)
          /\ callers[1].outcome.kind = "result"
    /\ \A i \in PublishFrames :
          stack[i].event.topic = "response.ready" =>
              stack[i].hs = [ex \in SharedExecutors |-> Handler(ex, "_handle_result")]

C33_Witness ==
    /\ Finished(1) /\ callers[1].outcome.kind = "result"
    /\ Runs("FormatStage", 1) = Pow(MaxExecutors, 4)
    /\ Runs("_handle_result", 1) = Pow(MaxExecutors, 5)
    /\ MaxExecutors >= 2

\* =========================================================================
\* The same request where running code runs on: a dispatch that can take a
\* step takes it (the chain is synchronous code, and no process blocks).
SpecIntentsFair == SpecIntents /\ WF_vars(NextIntents)

\* The chain is a line: each stage publishes on the next stage's topic, the
\* last on 'response.ready', and no stage listens to a terminal topic.
Linear ==
    /\ \A i \in 1..(Len(StageNames) - 1) : OutputTopic(StageNames[i]) = InputTopic(StageNames[i + 1])
    /\ \A i \in 1..Len(StageNames) : \A j \in 1..i : OutputTopic(StageNames[i]) # InputTopic(StageNames[j])
    /\ \A t \in TerminalTopics : \A k \in 1..Len(subscribers[t]) : subscribers[t][k].fn \notin StageSet

\* -------------------------------------------------------------------------
\* C34: the chain is a line without a cycle, no more than five publish
\* calls are ever nested (five exactly when 'response.ready' is published),
\* and a dispatch that execute_query started ends: the stack empties again.
C34_DispatchTerminates ==
    /\ [](/\ Linear
          /\ Cardinality(PublishFrames) <= Len(ChainTopics)
          /\ \A i \in PublishFrames : stack[i].event.topic = "response.ready" =>
                 Cardinality({j \in PublishFrames : j <= i}) = Len(ChainTopics))
    /\ (stack # <<>>) ~> (stack = <<>> /\ running = 0 /\ Finished(1))

C34_Witness ==
    /\ Cardinality(PublishFrames) = 5
    /\ TopIs("publish") /\ Top.event.topic = "response.ready"
    /\ Len(Top.invoked) = Len(Top.hs)

\* The last clear_subscribers call in the trace up to position p, else 0.
LastClear(p) ==
    LET cs == {q \in 1..p : trace[q].op = "clear"}
    IN IF cs = {} THEN 0 ELSE CHOOSE q \in cs : \A r \in cs : r <= q

\* -------------------------------------------------------------------------
\* C35: clear_subscribers leaves every topic without a handler, the
\* executor's result and error topics included, and leaves the history and
\* the futures as they were; and between a clear_subscribers and the next
\* subscribe, a publish on any topic starts a loop over no handler and no
\* handler is called.
C35_ClearSilences ==
    [][/\ (Len(trace') = Len(trace) + 1 /\ trace'[Len(trace')].op = "clear") =>
            /\ \A t \in Topics : subscribers'[t] = <<>>
            /\ history' = history
            /\ futures' = futures /\ result_future' = result_future
       /\ \A p \in (Len(trace) + 1)..Len(trace') :
            (/\ LastClear(p)' # 0
             /\ \A r \in (LastClear(p)' + 1)..p : trace'[r].op # "subscribe") =>
                /\ trace'[p].op # "invoke"
                /\ trace'[p].op = "publish" => Top'.hs = <<>> /\ Len(history') = Len(history) + 1
      ]_vars

C35_Witness ==
    /\ stack = <<>>
    /\ \E o, q, p \in 1..Len(trace) :
          /\ o < q /\ q < p
          /\ trace[o].op = "invoke" /\ trace[o].handler = "_handle_result"
          /\ trace[q].op = "clear"
          /\ trace[p].op = "publish" /\ trace[p].topic = "response.ready"
          /\ \A r \in q..Len(trace) : trace[r].op \notin {"subscribe", "invoke"}
    /\ Len(history) = 6

\* =========================================================================
\* The bus alone with a client whose handlers may subscribe handlers while
\* an event is being dispatched.

\* Mutant: publish iterates a copy of the topic's list.
AfterSubscribeSnapshot(f, t, h) == f

\* self._subscribers[topic].append(handler) seen from an activation of
\* publish: the loop `for handler in self._subscribers[topic]` iterates the
\* registry's list object itself, so an append to it lengthens the loop.
AfterSubscribe(f, t, h) ==
    IF f.kind = "publish" /\ f.live /\ f.event.topic = t
    THEN [f EXCEPT !.hs = Append(@, h)]
    ELSE f

\* The dispatch loop reaches a handler of the client, which calls
\* bus.subscribe(t, fn) and returns.
HandlerSubscribe(t, fn) ==
    /\ Dispatching
    /\ NextHandler.fn \in ClientHandlers
    /\ Cardinality(SubscribeCalls) < MaxSubs
    /\ subscribers' = Subscribe(subscribers, t, Handler(0, fn))
    /\ stack' = [i \in 1..Len(stack) |->
                    AfterSubscribe(IF i = Len(stack) THEN Visit(Top, NextHandler) ELSE stack[i],
                                   t, Handler(0, fn))]
    /\ trace' = Subscribed(Invoked(trace, running, Top.event.topic, NextHandler.fn), t, fn)
    /\ UNCHANGED <<history, exc, futures, result_future, callers, running, client, now>>

NextResub ==
    \/ \E t \in ClientTopics, fn \in ClientHandlers : ClientSubscribe(t, fn)
    \/ \E t \in ClientTopics : ClientPublish(t)
    \/ ClientHandlerReturn
    \/ ClientHandlerRaise
    \/ \E t \in ClientTopics, fn \in ClientHandlers : HandlerSubscribe(t, fn)
    \/ PublishReturn
    \/ PublishRaise

SpecResub == InitBus /\ [][NextResub]_vars

\* The subscribe calls on topic t made since the last publish call began.
SubscribedInFlight(t) ==
    {p \in 1..Len(trace) :
        /\ trace[p].op = "subscribe" /\ trace[p].topic = t
        /\ \E q \in 1..(p - 1) : trace[q].op = "publish"
        /\ \A q \in (p + 1)..Len(trace) : trace[q].op # "publish"}

\* -------------------------------------------------------------------------
\* C36 as stated: when a dispatch on T ends, by return or by raise, every
\* handler that was subscribed to T during it has been called for its event.
C36_InFlightSubscriberInvoked ==
    [][(stack # <<>> /\ stack' = <<>>) =>
          (SubscribedInFlight(Top.event.topic) # {} => Top.invoked = subscribers[Top.event.topic])
      ]_vars

\* C36: a subscribe to T by a handler during a dispatch on T appends the
\* handler to the list the loop iterates, after the handlers registered
\* earlier; the handlers called are always the first of the topic's list,
\* in its order; and when the dispatch returns, all of the list, the
\* handlers subscribed during it included, has been called, while a
\* dispatch that a handler's failure ends has called the handlers up to
\* the one that raised only.
C36_InFlightSubscriberInvokedUnlessRaise ==
    [][/\ (stack # <<>> /\ Len(subscribers'[Top.event.topic]) > Len(subscribers[Top.event.topic])) =>
            /\ Top'.hs = Append(Top.hs, subscribers'[Top.event.topic][Len(subscribers'[Top.event.topic])])
            /\ Top'.hs = subscribers'[Top.event.topic]
       /\ (stack # <<>> /\ stack' = <<>>) =>
            /\ Len(Top.invoked) <= Len(subscribers[Top.event.topic])
            /\ Top.invoked = SubSeq(subscribers[Top.event.topic], 1, Len(Top.invoked))
            /\ exc = NoExc => Top.invoked = subscribers[Top.event.topic]
            /\ exc # NoExc => exc = Exc("RuntimeError", Top.invoked[Len(Top.invoked)].fn)
      ]_vars

C36_Witness ==
    /\ client.pc = "returned"
    /\ \E t \in ClientTopics :
          /\ subscribers[t] = <<Handler(0, "H1"), Handler(0, "H2")>>
          /\ trace = <<[op |-> "subscribe", topic |-> t, handler |-> "H1", call |-> 0, err |-> NoExc],
                       [op |-> "publish", topic |-> t, handler |-> "client", call |-> 0, err |-> NoExc],
                       [op |-> "invoke", topic |-> t, handler |-> "H1", call |-> 0, err |-> NoExc],
                       [op |-> "subscribe", topic |-> t, handler |-> "H2", call |-> 0, err |-> NoExc],
                       [op |-> "invoke", topic |-> t, handler |-> "H2", call |-> 0, err |-> NoExc]>>
====
